---- MODULE Spec2Model ----
(***************************************************************************)
(* Model of the rice-price ingestion pipeline of src/main.py:              *)
(*   clean_price  (lines 6-17)   one raw cell  -> int | pd.NA | exception  *)
(*   load_data    (lines 19-97)  uploaded file -> (df_long, df_wide.T)     *)
(*                               | None (after st.error) | exception       *)
(* Text is modelled as a sequence of one-character strings so that the     *)
(* string operations of the code (replace, strip, int(), strptime) are     *)
(* computed character by character.                                        *)
(***************************************************************************)
EXTENDS Integers, Sequences, FiniteSets, TLC

VARIABLES
    price,      \* clean_price: the argument of the last call
    cleaned,    \* clean_price: the outcome of the last call
    pc,         \* load_data: position in the function body
    df_wide,    \* load_data: local df_wide
    df_long,    \* load_data: local df_long
    ret,        \* load_data: how the call ended (nothing yet, return, exception)
    st_error,   \* the st.error message shown by load_data, "" when none
    stages      \* load_data: the stages that have run, in order

vars == <<price, cleaned, pc, df_wide, df_long, ret, st_error, stages>>

(***************************************************************************)
(* Bounds                                                                  *)
(***************************************************************************)
MaxLen == 4        \* longest text enumerated for clean_price
MaxNum == 12       \* largest magnitude of a numeric cell, in tenths for floats
MaxRows == 2       \* most rows of an uploaded table
MaxCols == 2       \* most date columns of an uploaded table
MaxCells == 4      \* most price cells of an uploaded table

(***************************************************************************)
(* Characters and text                                                     *)
(***************************************************************************)
Digits == {"0", "1", "2", "3", "4", "5", "6", "7", "8", "9"}

DigitVal(c) ==
    CASE c = "0" -> 0 [] c = "1" -> 1 [] c = "2" -> 2 [] c = "3" -> 3
      [] c = "4" -> 4 [] c = "5" -> 5 [] c = "6" -> 6 [] c = "7" -> 7
      [] c = "8" -> 8 [] c = "9" -> 9

\* the characters of the enumerated texts: two digits, the separator, the
\* signs, a blank, and characters int() accepts ("_") or rejects ("x", ".")
Alphabet == {"0", "7", ",", "-", "+", " ", "_", "x", "."}

Whitespace == {" "}

RECURSIVE TextsUpTo(_)
TextsUpTo(n) ==
    IF n = 0 THEN {<<>>}
    ELSE LET shorter == TextsUpTo(n - 1)
         IN  shorter \cup {Append(t, c) : t \in shorter, c \in Alphabet}

\* str.replace(old, ''): delete every occurrence of the character old
RECURSIVE Remove(_, _)
Remove(s, old) ==
    IF s = <<>> THEN <<>>
    ELSE IF Head(s) = old THEN Remove(Tail(s), old)
         ELSE <<Head(s)>> \o Remove(Tail(s), old)

RECURSIVE LStrip(_)
LStrip(s) ==
    IF s # <<>> /\ Head(s) \in Whitespace THEN LStrip(Tail(s)) ELSE s

RECURSIVE RStrip(_)
RStrip(s) ==
    IF s # <<>> /\ s[Len(s)] \in Whitespace
    THEN RStrip(SubSeq(s, 1, Len(s) - 1)) ELSE s

\* str.strip()
Strip(s) == RStrip(LStrip(s))

(***************************************************************************)
(* Python's int()                                                          *)
(***************************************************************************)
\* the digits of an int() literal: a digit first, then digits, each "_"
\* between two digits
RECURSIVE IsDigitGroup(_)
IsDigitGroup(s) ==
    /\ s # <<>>
    /\ Head(s) \in Digits
    /\ \/ Len(s) = 1
       \/ /\ s[2] = "_"
          /\ IsDigitGroup(SubSeq(s, 3, Len(s)))
       \/ /\ s[2] # "_"
          /\ IsDigitGroup(Tail(s))

RECURSIVE DigitGroupVal(_, _)
DigitGroupVal(s, acc) ==
    IF s = <<>> THEN acc
    ELSE IF Head(s) = "_" THEN DigitGroupVal(Tail(s), acc)
         ELSE DigitGroupVal(Tail(s), 10 * acc + DigitVal(Head(s)))

NA == [kind |-> "NA", v |-> 0]
IntResult(n) == [kind |-> "int", v |-> n]
Raised(e) == [kind |-> e, v |-> 0]

\* int(text): surrounding whitespace and one sign are accepted, anything
\* else raises ValueError
IntOfStr(text) ==
    LET t == Strip(text)
        signed == t # <<>> /\ Head(t) \in {"-", "+"}
        body == IF signed THEN Tail(t) ELSE t
    IN  IF IsDigitGroup(body)
        THEN IntResult((IF signed /\ Head(t) = "-" THEN -1 ELSE 1)
                         * DigitGroupVal(body, 0))
        ELSE Raised("ValueError")

\* raw cell values: text, an int, a finite float (n tenths), inf, nan, None
StrCell(s) == [k |-> "str", s |-> s, n |-> 0]
IntCell(n) == [k |-> "int", s |-> <<>>, n |-> n]
FloatCell(tenths) == [k |-> "float", s |-> <<>>, n |-> tenths]
InfCell == [k |-> "inf", s |-> <<>>, n |-> 0]
NanCell == [k |-> "nan", s |-> <<>>, n |-> 0]
NoneCell == [k |-> "none", s |-> <<>>, n |-> 0]

\* int(x) for any cell value; a float is truncated towards zero
IntOf(x) ==
    CASE x.k = "str" -> IntOfStr(x.s)
      [] x.k = "int" -> IntResult(x.n)
      [] x.k = "float" ->
            IntResult(IF x.n >= 0 THEN x.n \div 10 ELSE -((-x.n) \div 10))
      [] x.k = "inf" -> Raised("OverflowError")
      [] x.k = "nan" -> Raised("ValueError")
      [] x.k = "none" -> Raised("TypeError")

(***************************************************************************)
(* clean_price (lines 6-17)                                                *)
(***************************************************************************)
\* the except clause of line 16
Caught == {"ValueError", "TypeError"}

\* clean_price without the replace(',', '') of line 10
clean_price_keeps_commas(p) ==
    LET q == IF p.k = "str" THEN StrCell(Strip(p.s)) ELSE p
    IN  IF q.k = "str" /\ (q.s = <<"-">> \/ q.s = <<>>)
        THEN NA
        ELSE LET r == IntOf(q)
             IN  IF r.kind \in Caught THEN NA ELSE r

clean_price(p) ==
    LET q == IF p.k = "str" THEN StrCell(Strip(Remove(p.s, ","))) ELSE p
    IN  IF q.k = "str" /\ (q.s = <<"-">> \/ q.s = <<>>)
        THEN NA
        ELSE LET r == IntOf(q)
             IN  IF r.kind \in Caught THEN NA ELSE r

NumericCells ==
    {IntCell(n) : n \in -MaxNum..MaxNum}
        \cup {FloatCell(n) : n \in -MaxNum..MaxNum}
        \cup {InfCell, NanCell, NoneCell}

TextCells == {StrCell(t) : t \in TextsUpTo(MaxLen)}

NotCalled == [kind |-> "none", v |-> 0]

\* one call of clean_price on the argument chosen by the initial state
CallCleanPrice ==
    /\ cleaned = NotCalled
    /\ pc = "clean"
    /\ cleaned' = clean_price(price)
    /\ UNCHANGED <<price, pc, df_wide, df_long, ret, st_error, stages>>

(***************************************************************************)
(* Dates                                                                   *)
(***************************************************************************)
AllDigits(s) == \A i \in 1..Len(s) : s[i] \in Digits

RECURSIVE NumberOf(_, _)
NumberOf(s, acc) ==
    IF s = <<>> THEN acc ELSE NumberOf(Tail(s), 10 * acc + DigitVal(Head(s)))

\* the fields of s between the separators sep
RECURSIVE Split(_, _, _)
Split(s, sep, cur) ==
    IF s = <<>> THEN <<cur>>
    ELSE IF Head(s) = sep THEN <<cur>> \o Split(Tail(s), sep, <<>>)
         ELSE Split(Tail(s), sep, Append(cur, Head(s)))

IsLeap(y) == (y % 4 = 0 /\ y % 100 # 0) \/ y % 400 = 0

DaysInMonth(y, m) ==
    IF m = 2 THEN (IF IsLeap(y) THEN 29 ELSE 28)
    ELSE IF m \in {4, 6, 9, 11} THEN 30 ELSE 31

NaT == [ok |-> TRUE, nat |-> TRUE, ymd |-> 0]
DateOf(y, m, d) == [ok |-> TRUE, nat |-> FALSE, ymd |-> y * 10000 + m * 100 + d]
NoDate == [ok |-> FALSE, nat |-> FALSE, ymd |-> 0]

\* a calendar date inside the range of a nanosecond timestamp
MakeDate(y, m, d) ==
    IF /\ m \in 1..12
       /\ d >= 1
       /\ d <= DaysInMonth(y, m)
       /\ y * 10000 + m * 100 + d >= 16770922
       /\ y * 10000 + m * 100 + d <= 22620411
    THEN DateOf(y, m, d)
    ELSE NoDate

ShortField(f) == Len(f) \in 1..2 /\ AllDigits(f)
YearField(f) == Len(f) = 4 /\ AllDigits(f)

\* strptime with "%d/%m/%Y" (dayFirst) or "%m/%d/%Y": one or two digits,
\* one or two digits, four digits
ParseSlash(s, dayFirst) ==
    LET f == Split(s, "/", <<>>)
    IN  IF Len(f) = 3 /\ ShortField(f[1]) /\ ShortField(f[2]) /\ YearField(f[3])
        THEN LET a == NumberOf(f[1], 0)
                 b == NumberOf(f[2], 0)
                 y == NumberOf(f[3], 0)
             IN  IF dayFirst THEN MakeDate(y, b, a) ELSE MakeDate(y, a, b)
        ELSE NoDate

\* the ISO form "%Y-%m-%d"
ParseIso(s) ==
    LET f == Split(s, "-", <<>>)
    IN  IF /\ Len(f) = 3
           /\ YearField(f[1])
           /\ Len(f[2]) = 2 /\ AllDigits(f[2])
           /\ Len(f[3]) = 2 /\ AllDigits(f[3])
        THEN MakeDate(NumberOf(f[1], 0), NumberOf(f[2], 0), NumberOf(f[3], 0))
        ELSE NoDate

\* the texts pandas.to_datetime reads as a null date instead of parsing
NatStrings ==
    { <<>>, <<"N", "a", "T">>, <<"n", "a", "t">>, <<"N", "A", "T">>,
      <<"n", "a", "n">>, <<"N", "a", "N">>, <<"N", "A", "N">> }

ParseWith(s, fmt) ==
    IF s \in NatStrings THEN NaT
    ELSE CASE fmt = "dmy" -> ParseSlash(s, TRUE)
           [] fmt = "mdy" -> ParseSlash(s, FALSE)
           [] fmt = "iso" -> ParseIso(s)
           [] OTHER -> NoDate

\* the format to_datetime infers from one label when none is given
GuessFormat(s) ==
    IF ParseIso(s).ok THEN "iso"
    ELSE IF ParseSlash(s, FALSE).ok THEN "mdy"
    ELSE IF ParseSlash(s, TRUE).ok THEN "dmy"
    ELSE "none"

\* pd.to_datetime(labels, format='%d/%m/%Y'), line 78: every label is
\* parsed with the format; one failing label raises ValueError
to_datetime_dmy(labels) == [i \in 1..Len(labels) |-> ParseWith(labels[i], "dmy")]

\* pd.to_datetime(labels), line 82: the format is inferred from the first
\* non-null label and then applied to every label; one failing label raises
to_datetime_infer(labels) ==
    LET nonNull == {i \in 1..Len(labels) : labels[i] \notin NatStrings}
        first == CHOOSE i \in nonNull : \A j \in nonNull : i <= j
        fmt == IF nonNull = {} THEN "none" ELSE GuessFormat(labels[first])
    IN  [i \in 1..Len(labels) |-> ParseWith(labels[i], fmt)]

AllParsed(dates) == \A i \in 1..Len(dates) : dates[i].ok

(***************************************************************************)
(* Uploaded tables                                                         *)
(***************************************************************************)
\* a missing value in the region column
RegionNaN == "<NaN>"

SampleRegions == {"Jakarta", "Bali", RegionNaN}

\* "12,500", "-", the integer 13000 and the float inf
SampleCells ==
    { StrCell(<<"1", "2", ",", "5", "0", "0">>), StrCell(<<"-">>),
      IntCell(13000), InfCell }

\* "01/01/2024", "02/01/2024", " 02 /01/2024" (stray blanks), "2024-01-01",
\* " " (a blank header) and "x"
SampleLabels ==
    { <<"0", "1", "/", "0", "1", "/", "2", "0", "2", "4">>,
      <<"0", "2", "/", "0", "1", "/", "2", "0", "2", "4">>,
      <<" ", "0", "2", " ", "/", "0", "1", "/", "2", "0", "2", "4">>,
      <<"2", "0", "2", "4", "-", "0", "1", "-", "0", "1">>,
      <<" ">>,
      <<"x">> }

\* the sequences over S of length n (n <= MaxRows or MaxCols)
SeqsOfLen(S, n) == [1..n -> S]

Distinct(s) == \A i, j \in 1..Len(s) : i # j => s[i] # s[j]

\* a table as read_excel / read_csv deliver it: an optional
\* "Komoditas (Rp)" column, an optional "No" column, and other columns
RawTable(id, no, cols, keys, vals) ==
    [idcol |-> id, nocol |-> no, columns |-> cols,
     rows |-> [i \in 1..Len(keys) |-> [key |-> keys[i], vals |-> vals[i]]]]

\* read_excel keeps the type of every cell: text and integers may share a
\* column; a worksheet holds no infinite number
ExcelTyped(vals) ==
    \A r \in 1..Len(vals) : \A c \in 1..Len(vals[r]) : vals[r][c].k \in {"str", "int"}

\* read_csv infers one type per column: a column is all numbers (with
\* "inf" read as the float inf) or all text
CsvTyped(vals) ==
    \A r1, r2 \in 1..Len(vals) : \A c \in 1..Len(vals[r1]) :
        (vals[r1][c].k = "str") = (vals[r2][c].k = "str")

\* df_wide becomes any table of up to MaxRows rows, up to MaxCols other
\* columns with distinct labels and up to MaxCells cells in them, the cells
\* typed as the reader types them
ReadsTable(reader) ==
    \E c \in 0..MaxCols :
      \E r \in {n \in 0..MaxRows : n * c <= MaxCells} :
      \E id \in {"Komoditas (Rp)", "absent"}, no \in BOOLEAN,
         cols \in {l \in SeqsOfLen(SampleLabels, c) : Distinct(l)},
         keys \in SeqsOfLen(SampleRegions, r),
         vals \in {v \in SeqsOfLen(SeqsOfLen(SampleCells, c), r) :
                     IF reader = "read_excel" THEN ExcelTyped(v) ELSE CsvTyped(v)} :
           df_wide' = RawTable(id, no, cols, keys, vals)

EmptyFrame == [idcol |-> "absent", nocol |-> FALSE, columns |-> <<>>, rows |-> <<>>]

StillRunning == [kind |-> "running", long |-> <<>>, summary |-> EmptyFrame]
ReturnedNone == [kind |-> "None", long |-> <<>>, summary |-> EmptyFrame]
Escaped(e) == [kind |-> e, long |-> <<>>, summary |-> EmptyFrame]

(***************************************************************************)
(* load_data (lines 19-97), stage by stage                                 *)
(***************************************************************************)
UploadMsg == "Silakan upload file 'Tabel Harga Berdasarkan Komoditas.xlsx' di sidebar."
ReadMsg == "Gagal membaca file. Pastikan formatnya Excel atau CSV."
SchemaMsg == "Data tidak memiliki kolom 'Komoditas (Rp)'. Pastikan file Anda benar."
DateMsg == "Format tanggal di header kolom salah."

\* return None after st.error(msg): the locals are gone
Fail(msg) ==
    /\ st_error' = msg
    /\ ret' = ReturnedNone
    /\ pc' = "failed"
    /\ df_wide' = EmptyFrame
    /\ df_long' = <<>>

\* lines 22-24: no file was uploaded
NoFile ==
    /\ pc = "start"
    /\ Fail(UploadMsg)
    /\ UNCHANGED <<price, cleaned, stages>>

\* line 28: read_excel succeeds
ReadExcel ==
    /\ pc = "start"
    /\ ReadsTable("read_excel")
    /\ pc' = "parsed"
    /\ stages' = Append(stages, "Parse")
    /\ UNCHANGED <<price, cleaned, df_long, ret, st_error>>

\* lines 29-34: read_excel raises, the file is rewound and read_csv succeeds
ReadCsv ==
    /\ pc = "start"
    /\ ReadsTable("read_csv")
    /\ pc' = "parsed"
    /\ stages' = Append(stages, "Parse")
    /\ UNCHANGED <<price, cleaned, df_long, ret, st_error>>

\* lines 35-37: read_csv raises as well
ReadFail ==
    /\ pc = "start"
    /\ Fail(ReadMsg)
    /\ stages' = Append(stages, "Parse")
    /\ UNCHANGED <<price, cleaned>>

\* Validate without the membership test of line 41
Validate_unchecked ==
    /\ pc = "parsed"
    /\ stages' = Append(stages, "Validate")
    /\ df_wide' = [df_wide EXCEPT !.idcol = "Provinsi", !.nocol = FALSE]
    /\ pc' = "validated"
    /\ UNCHANGED <<price, cleaned, df_long, ret, st_error>>

\* lines 41-49: rename the identifier column or fail; drop the "No" column
Validate ==
    /\ pc = "parsed"
    /\ stages' = Append(stages, "Validate")
    /\ IF df_wide.idcol = "Komoditas (Rp)"
       THEN /\ df_wide' = [df_wide EXCEPT !.idcol = "Provinsi", !.nocol = FALSE]
            /\ pc' = "validated"
            /\ UNCHANGED <<df_long, ret, st_error>>
       ELSE Fail(SchemaMsg)
    /\ UNCHANGED <<price, cleaned>>

\* lines 52-55: dropna(subset=['Provinsi']) and set_index('Provinsi')
HasRegion(row) == row.key # RegionNaN

Filter ==
    /\ pc = "validated"
    /\ stages' = Append(stages, "Filter")
    /\ df_wide' = [df_wide EXCEPT !.idcol = "index",
                                  !.rows = SelectSeq(df_wide.rows, HasRegion)]
    /\ pc' = "filtered"
    /\ UNCHANGED <<price, cleaned, df_long, ret, st_error>>

\* lines 58-59: clean_price on every cell
CleanRows(rows) ==
    [i \in 1..Len(rows) |->
        [rows[i] EXCEPT !.vals = [c \in 1..Len(rows[i].vals) |->
                                      clean_price(rows[i].vals[c])]]]

\* an exception of clean_price that line 16 does not catch
CleanEscapes(rows) ==
    \E i \in 1..Len(rows) : \E c \in 1..Len(rows[i].vals) :
        rows[i].vals[c].kind \notin {"int", "NA"}

\* line 63: dropna(how='all') keeps the rows with at least one value
AnyValue(row) == \E c \in 1..Len(row.vals) : row.vals[c] # NA

\* lines 58-63: normalise the cells, strip the labels, drop the empty rows
Normalize ==
    /\ pc = "filtered"
    /\ stages' = Append(stages, "Normalize")
    /\ LET rows == CleanRows(df_wide.rows)
       IN  IF CleanEscapes(rows)
           THEN /\ ret' = Escaped("OverflowError")
                /\ pc' = "raised"
                /\ df_wide' = EmptyFrame
           ELSE /\ df_wide' =
                     [df_wide EXCEPT
                        !.columns = [c \in 1..Len(df_wide.columns) |->
                                        Strip(df_wide.columns[c])],
                        !.rows = SelectSeq(rows, AnyValue)]
                /\ pc' = "normalized"
                /\ ret' = ret
    /\ UNCHANGED <<price, cleaned, df_long, st_error>>

\* lines 67-71: reset_index().melt(id_vars='Provinsi'): column by column,
\* and within a column row by row
melt(frame) ==
    LET R == Len(frame.rows)
        C == Len(frame.columns)
    IN  [n \in 1..(R * C) |->
            LET c == ((n - 1) \div R) + 1
                r == ((n - 1) % R) + 1
            IN  [Provinsi |-> frame.rows[r].key,
                 Tanggal |-> frame.columns[c],
                 Harga |-> frame.rows[r].vals[c]]]

\* lines 67-73: melt, then remove the blanks inside the date labels
Reshape ==
    /\ pc = "normalized"
    /\ stages' = Append(stages, "Reshape")
    /\ df_long' = LET m == melt(df_wide)
                  IN  [n \in 1..Len(m) |->
                          [m[n] EXCEPT !.Tanggal = Remove(m[n].Tanggal, " ")]]
    /\ pc' = "reshaped"
    /\ UNCHANGED <<price, cleaned, df_wide, ret, st_error>>

WithDates(long, dates) ==
    [n \in 1..Len(long) |-> [long[n] EXCEPT !.Tanggal = dates[n]]]

\* lines 76-82: the day/month/year format first; when it raises, format
\* inference on the whole column
parse_dates(labels) ==
    IF AllParsed(to_datetime_dmy(labels))
    THEN to_datetime_dmy(labels)
    ELSE to_datetime_infer(labels)

\* lines 76-85: parse the date labels or fail
DateParse ==
    /\ pc = "reshaped"
    /\ stages' = Append(stages, "DateParse")
    /\ LET dates == parse_dates([n \in 1..Len(df_long) |-> df_long[n].Tanggal])
       IN  IF AllParsed(dates)
           THEN /\ df_long' = WithDates(df_long, dates)
                /\ pc' = "dateparsed"
                /\ UNCHANGED <<df_wide, ret, st_error>>
           ELSE Fail(DateMsg)
    /\ UNCHANGED <<price, cleaned>>

\* keeps every row, also those whose price is missing
HasPrice_any(obs) == TRUE

\* line 88: dropna(subset=['Harga'])
HasPrice(obs) == obs.Harga # NA

\* line 91: astype(int)
AsInt(long) == [n \in 1..Len(long) |-> [long[n] EXCEPT !.Harga = long[n].Harga.v]]

\* a precedes or equals b in an ascending sort with the null dates last
DateLeq(a, b) == b.nat \/ (~a.nat /\ a.ymd <= b.ymd)

Orderings(n) == {p \in [1..n -> 1..n] : \A i, j \in 1..n : i # j => p[i] # p[j]}

\* line 94: sort_values(by='Tanggal') with the default kind 'quicksort',
\* which pandas documents as not stable: the outcome is one of the
\* arrangements of the rows in ascending date order (null dates last); rows
\* of equal date may come out in any relative order
sort_values(long) ==
    { [n \in 1..Len(long) |-> long[p[n]]] :
        p \in {q \in Orderings(Len(long)) :
                 \A n \in 1..(Len(long) - 1) :
                    DateLeq(long[q[n]].Tanggal, long[q[n + 1]].Tanggal)} }

\* line 97: DataFrame.transpose(): the labels become the index, the regions
\* the columns
transpose(frame) ==
    [idcol |-> "columns", nocol |-> FALSE,
     columns |-> [r \in 1..Len(frame.rows) |-> frame.rows[r].key],
     rows |-> [c \in 1..Len(frame.columns) |->
                 [key |-> frame.columns[c],
                  vals |-> [r \in 1..Len(frame.rows) |-> frame.rows[r].vals[c]]]]]

\* lines 88-97: drop the missing prices, make them int, sort, return
Finalize ==
    /\ pc = "dateparsed"
    /\ stages' = Append(stages, "Finalize")
    /\ \E sorted \in sort_values(AsInt(SelectSeq(df_long, HasPrice))) :
          /\ df_long' = sorted
          /\ ret' = [kind |-> "tables", long |-> sorted, summary |-> transpose(df_wide)]
    /\ pc' = "done"
    /\ UNCHANGED <<price, cleaned, df_wide, st_error>>

Init ==
    /\ price = NoneCell
    /\ cleaned = NotCalled
    /\ pc = "start"
    /\ df_wide = EmptyFrame
    /\ df_long = <<>>
    /\ ret = StillRunning
    /\ st_error = ""
    /\ stages = <<>>

\* clean_price on its own: the argument is any text up to MaxLen characters
\* or any numeric cell
InitClean ==
    /\ price \in TextCells \cup NumericCells
    /\ cleaned = NotCalled
    /\ pc = "clean"
    /\ df_wide = EmptyFrame
    /\ df_long = <<>>
    /\ ret = StillRunning
    /\ st_error = ""
    /\ stages = <<>>

NextClean == CallCleanPrice

SpecClean == InitClean /\ [][NextClean]_vars

(***************************************************************************)
(* Properties                                                              *)
(***************************************************************************)
Called == pc = "clean" /\ cleaned # NotCalled

\* C1: clean_price returns a non-negative integer or the missing marker for
\* every raw cell value, and never raises
C1_NonNegativeOrMissing ==
    Called => cleaned = NA \/ (cleaned.kind = "int" /\ cleaned.v >= 0)

\* the pattern ^-?\d[\d,]*$
MatchesPattern(s) ==
    LET body == IF s # <<>> /\ Head(s) = "-" THEN Tail(s) ELSE s
    IN  /\ body # <<>>
        /\ Head(body) \in Digits
        /\ \A i \in 1..Len(body) : body[i] \in Digits \cup {","}

IsDigit(c) == c \in Digits

\* the integer a text denotes once its commas are deleted
ValueWithoutCommas(s) ==
    (IF Head(s) = "-" THEN -1 ELSE 1) * NumberOf(SelectSeq(s, IsDigit), 0)

\* text that denotes no number: no digit in it, or a letter in it
NonNumericText(s) ==
    \/ \A i \in 1..Len(s) : s[i] \notin Digits
    \/ \E i \in 1..Len(s) : s[i] = "x"

LaterStage == Validate \/ Filter \/ Normalize \/ Reshape \/ DateParse \/ Finalize

AllStages ==
    <<"Parse", "Validate", "Filter", "Normalize", "Reshape", "DateParse", "Finalize">>

IsPrefix(s, full) == Len(s) <= Len(full) /\ s = SubSeq(full, 1, Len(s))

\* C3: load_data ends either by returning both tables after all stages in
\* order, or by returning None from the first fatal stage; it ends in no
\* other way, and after a failure no later stage runs
C3_TwoOutcomes ==
    /\ IsPrefix(stages, AllStages)
    /\ ret.kind \in {"running", "tables", "None"}
    /\ ret.kind = "tables" => stages = AllStages /\ pc = "done"
    /\ ret.kind = "None" => st_error # "" /\ pc = "failed" /\ ~ENABLED LaterStage
    /\ ret.kind = "running" => pc \notin {"done", "failed", "raised"}

\* C4: a parsed table without the column "Komoditas (Rp)" makes load_data
\* fail with the schema error and no tables, and no later stage runs
C4_SchemaFailure ==
    [][ /\ (pc = "parsed" /\ df_wide.idcol # "Komoditas (Rp)") =>
              /\ pc' = "failed"
              /\ st_error' = SchemaMsg
              /\ ret' = ReturnedNone
              /\ stages' = <<"Parse", "Validate">>
        /\ st_error # SchemaMsg ]_vars

C4_Witness ==
    /\ pc = "failed"
    /\ st_error = SchemaMsg
    /\ ret = ReturnedNone
    /\ stages = <<"Parse", "Validate">>

\* the dates of the columns of a cleaned wide table
ColumnDates(frame) ==
    parse_dates([c \in 1..Len(frame.columns) |-> Remove(frame.columns[c], " ")])

CellsOf(frame) ==
    {rc \in (1..Len(frame.rows)) \X (1..Len(frame.columns)) : TRUE}

\* C5: no Observation of a returned LongTable has a missing Price: a cell
\* of the cleaned wide table whose value is missing contributes no row, a
\* cell with an integer contributes its row
C5_NoMissingPrice ==
    ret.kind = "tables" =>
        /\ Len(ret.long) =
              Cardinality({rc \in CellsOf(df_wide) :
                              df_wide.rows[rc[1]].vals[rc[2]] # NA})
        /\ \A rc \in CellsOf(df_wide) :
              LET cell == df_wide.rows[rc[1]].vals[rc[2]]
                  obs == [Provinsi |-> df_wide.rows[rc[1]].key,
                          Tanggal |-> ColumnDates(df_wide)[rc[2]],
                          Harga |-> cell.v]
              IN  cell # NA =>
                    Cardinality({n \in 1..Len(ret.long) : ret.long[n] = obs})
                      = Cardinality({x \in CellsOf(df_wide) :
                            /\ df_wide.rows[x[1]].key = obs.Provinsi
                            /\ ColumnDates(df_wide)[x[2]] = obs.Tanggal
                            /\ df_wide.rows[x[1]].vals[x[2]] = cell})

\* the example: ["Jakarta", "12,500", "-"] under 01/01/2024 and 02/01/2024
C5_Witness ==
    /\ ret.kind = "tables"
    /\ df_wide.columns = << <<"0", "1", "/", "0", "1", "/", "2", "0", "2", "4">>,
                            <<"0", "2", "/", "0", "1", "/", "2", "0", "2", "4">> >>
    /\ df_wide.rows = <<[key |-> "Jakarta", vals |-> <<IntResult(12500), NA>>]>>
    /\ ret.long = <<[Provinsi |-> "Jakarta", Tanggal |-> DateOf(2024, 1, 1),
                     Harga |-> 12500]>>

NoMissingCells(frame) ==
    \A rc \in CellsOf(frame) : frame.rows[rc[1]].vals[rc[2]] # NA

\* the prices a re-pivot of the long table finds for one region and date
PivotCell(long, region, date) ==
    {long[n].Harga : n \in {m \in 1..Len(long) :
                              long[m].Provinsi = region /\ long[m].Tanggal = date}}

\* C6: for a cleaned wide table of R regions and D date columns without
\* missing cells the LongTable has R x D rows, and re-pivoting it (one row
\* per Region, one column per Date) gives the cleaned wide table back
C6_RoundTrip ==
    (ret.kind = "tables" /\ NoMissingCells(df_wide)) =>
        /\ Len(ret.long) = Len(df_wide.rows) * Len(df_wide.columns)
        /\ Cardinality({ret.long[n].Provinsi : n \in 1..Len(ret.long)})
              = IF df_wide.columns = <<>> THEN 0 ELSE Len(df_wide.rows)
        /\ Cardinality({ret.long[n].Tanggal : n \in 1..Len(ret.long)})
              = IF df_wide.rows = <<>> THEN 0 ELSE Len(df_wide.columns)
        /\ \A rc \in CellsOf(df_wide) :
              PivotCell(ret.long, df_wide.rows[rc[1]].key, ColumnDates(df_wide)[rc[2]])
                = {df_wide.rows[rc[1]].vals[rc[2]].v}

IsRealDate(d) == d.ok /\ ~d.nat

AllReal(dates) == \A n \in 1..Len(dates) : IsRealDate(dates[n])

\* C7: date parsing is all-or-nothing: the column is parsed with the
\* day/month/year format; if a label fails, the whole column is parsed
\* again by format inference; only if that fails too does load_data fail
\* with the date-format error; no LongTable has some labels parsed and
\* others not
C7_AllOrNothing ==
    [][ pc = "reshaped" =>
          LET labels == [n \in 1..Len(df_long) |-> df_long[n].Tanggal]
              first == to_datetime_dmy(labels)
              second == to_datetime_infer(labels)
          IN  \/ /\ AllReal(first)
                 /\ pc' = "dateparsed"
                 /\ df_long' = WithDates(df_long, first)
              \/ /\ ~AllReal(first)
                 /\ AllReal(second)
                 /\ pc' = "dateparsed"
                 /\ df_long' = WithDates(df_long, second)
              \/ /\ ~AllReal(first)
                 /\ ~AllReal(second)
                 /\ pc' = "failed"
                 /\ st_error' = DateMsg
                 /\ ret' = ReturnedNone ]_vars

\* Date[i] <= Date[i + 1]; a null date compares false with every date
DateLessEq(a, b) == ~a.nat /\ ~b.nat /\ a.ymd <= b.ymd

\* C8: the Observations of a returned LongTable are in ascending Date order
C8_SortedByDate ==
    ret.kind = "tables" =>
        \A n \in 1..(Len(ret.long) - 1) :
            DateLessEq(ret.long[n].Tanggal, ret.long[n + 1].Tanggal)

\* the rows the sort receives: lines 88-91
BeforeSort(long) == AsInt(SelectSeq(long, LAMBDA o : o.Harga # NA))

\* C9: the final sort is stable: Observations of the same Date keep the
\* relative order the reshape gave them
C9_StableSort ==
    [][ (pc = "dateparsed" /\ pc' = "done") =>
          \E p \in Orderings(Len(df_long')) :
             /\ Len(df_long') = Len(BeforeSort(df_long))
             /\ df_long' = [n \in 1..Len(df_long') |-> BeforeSort(df_long)[p[n]]]
             /\ \A i, j \in 1..Len(df_long') :
                   (i < j /\ df_long'[i].Tanggal = df_long'[j].Tanggal) => p[i] < p[j]
      ]_vars

\* C10: the region is a unique row key of the cleaned wide table and of
\* the columns of the returned TransposedSummaryTable
C10_UniqueRegion ==
    /\ pc \in {"normalized", "reshaped", "dateparsed", "done"} =>
          \A i, j \in 1..Len(df_wide.rows) :
              i # j => df_wide.rows[i].key # df_wide.rows[j].key
    /\ ret.kind = "tables" => Distinct(ret.summary.columns)


Next ==
    \/ NoFile
    \/ ReadExcel
    \/ ReadCsv
    \/ ReadFail
    \/ Validate
    \/ Filter
    \/ Normalize
    \/ Reshape
    \/ DateParse
    \/ Finalize

Spec == Init /\ [][Next]_vars

====
